---------------------------- MODULE Spec2Model ----------------------------
(***************************************************************************)
(* Article collection and selection pipeline of the news summarizer        *)
(* worker (worker/index.js): jaccardSimilarity, deduplicateArticles,       *)
(* balanceArticleSelection, retryWithBackoff and fetchNewsForTopic.        *)
(*                                                                         *)
(* A JavaScript string is a sequence of one-character strings, so that     *)
(* toLowerCase, split(/\s+/) and the length filter are computed and not    *)
(* assumed.  A similarity score is the reduced fraction <<num, den>>; a    *)
(* threshold is an integer number of hundredths (75 is 0.75).              *)
(***************************************************************************)
EXTENDS Integers, Sequences, FiniteSets, TLC

\* An optional value (an argument, setting or field that may be absent):
\* JavaScript's undefined is the empty tuple, a present value v is <<v>>.
Undefined == <<>>
Some(v) == <<v>>
Get(o) == o[1]

-----------------------------------------------------------------------------
(* Bounds of the model *)

\* Words per string handed to jaccardSimilarity.
MaxWords == 2
\* Articles per list handed to deduplicateArticles.
MaxDedupLen == 3
\* Articles per list handed to balanceArticleSelection.
MaxBalanceLen == 5
\* Largest maxArticles handed to balanceArticleSelection.
MaxBalanceTotal == 4
\* Feeds declared by a topic (a few longer topics are added by name).
MaxFeeds == 2
\* Topics of a configuration.
MaxTopics == 3
\* Largest minArticlesPerPerspective handed to balanceArticleSelection.
MaxMinPerPerspective == 2

-----------------------------------------------------------------------------
(* Strings *)

UpperCase ==
  <<"A","B","C","D","E","F","G","H","I","J","K","L","M",
    "N","O","P","Q","R","S","T","U","V","W","X","Y","Z">>
LowerCase ==
  <<"a","b","c","d","e","f","g","h","i","j","k","l","m",
    "n","o","p","q","r","s","t","u","v","w","x","y","z">>

ToLowerChar(c) ==
  IF \E i \in 1..26 : UpperCase[i] = c
  THEN LowerCase[CHOOSE i \in 1..26 : UpperCase[i] = c]
  ELSE c

\* String.prototype.toLowerCase
ToLowerCase(s) == [i \in 1..Len(s) |-> ToLowerChar(s[i])]

\* The characters the regular expression \s matches, of those the model uses.
IsSpace(c) == c \in {" ", "\t", "\n"}

\* String.prototype.split(/\s+/): the pieces between maximal runs of white
\* space; a leading or trailing run yields an empty piece, "" yields <<"">>.
RECURSIVE SplitFrom(_, _, _, _)
SplitFrom(s, i, cur, acc) ==
  IF i > Len(s) THEN Append(acc, cur)
  ELSE IF IsSpace(s[i])
       THEN IF i > 1 /\ IsSpace(s[i - 1])
            THEN SplitFrom(s, i + 1, cur, acc)
            ELSE SplitFrom(s, i + 1, <<>>, Append(acc, cur))
       ELSE SplitFrom(s, i + 1, Append(cur, s[i]), acc)

SplitWhitespace(s) == SplitFrom(s, 1, <<>>, <<>>)

Range(f) == {f[i] : i \in DOMAIN f}

\* new Set(str.toLowerCase().split(/\s+/).filter((word) => word.length > 2))
WordSet(s) ==
  {w \in Range(SplitWhitespace(ToLowerCase(s))) : Len(w) > 2}

-----------------------------------------------------------------------------
(* Numbers *)

RECURSIVE Gcd(_, _)
Gcd(a, b) == IF b = 0 THEN a ELSE Gcd(b, a % b)

\* The quotient n / d (d > 0) as a reduced fraction.
Ratio(n, d) == <<n \div Gcd(n, d), d \div Gcd(n, d)>>

Zero == Ratio(0, 1)
One == Ratio(1, 1)

\* similarity >= threshold, the threshold in hundredths.
AtLeast(sim, threshold) == sim[1] * 100 >= threshold * sim[2]

Min(a, b) == IF a < b THEN a ELSE b

-----------------------------------------------------------------------------
(* jaccardSimilarity *)

\* The variant that divides by the size of the first set, not of the union.
jaccardOverFirst(str1, str2) ==
  IF Len(str1) = 0 \/ Len(str2) = 0 THEN Zero
  ELSE
    LET set1 == WordSet(str1)
        set2 == WordSet(str2)
    IN  IF set1 = {} /\ set2 = {} THEN One
        ELSE IF set1 = {} \/ set2 = {} THEN Zero
        ELSE Ratio(Cardinality(set1 \cap set2), Cardinality(set1))

jaccardSimilarity(str1, str2) ==
  IF Len(str1) = 0 \/ Len(str2) = 0 THEN Zero
  ELSE
    LET set1 == WordSet(str1)
        set2 == WordSet(str2)
    IN  IF set1 = {} /\ set2 = {} THEN One
        ELSE IF set1 = {} \/ set2 = {} THEN Zero
        ELSE Ratio(Cardinality(set1 \cap set2), Cardinality(set1 \cup set2))

-----------------------------------------------------------------------------
(* deduplicateArticles *)

\* The default value of the threshold parameter, in hundredths.
DefaultThreshold == 75

\* The variant that compares the candidate with the last kept article only.
IsDuplicateOfLast(article, kept, threshold) ==
  /\ Len(kept) > 0
  /\ AtLeast(jaccardSimilarity(article.title, kept[Len(kept)].title), threshold)

\* The inner loop: is the candidate similar to an article already kept?
IsDuplicate(article, kept, threshold) ==
  \E k \in 1..Len(kept) :
    AtLeast(jaccardSimilarity(article.title, kept[k].title), threshold)

RECURSIVE DedupFrom(_, _, _, _)
DedupFrom(articles, i, kept, threshold) ==
  IF i > Len(articles) THEN kept
  ELSE IF IsDuplicate(articles[i], kept, threshold)
       THEN DedupFrom(articles, i + 1, kept, threshold)
       ELSE DedupFrom(articles, i + 1, Append(kept, articles[i]), threshold)

\* The variant in which a duplicate replaces the article it resembles (the
\* later article wins).
RECURSIVE DedupLastWinsFrom(_, _, _, _)
DedupLastWinsFrom(articles, i, kept, threshold) ==
  IF i > Len(articles) THEN kept
  ELSE IF IsDuplicate(articles[i], kept, threshold)
       THEN LET k == CHOOSE j \in 1..Len(kept) :
                       /\ AtLeast(jaccardSimilarity(articles[i].title, kept[j].title),
                                  threshold)
                       /\ \A h \in 1..(j - 1) :
                            ~AtLeast(jaccardSimilarity(articles[i].title, kept[h].title),
                                     threshold)
            IN  DedupLastWinsFrom(articles, i + 1,
                                  [kept EXCEPT ![k] = articles[i]], threshold)
       ELSE DedupLastWinsFrom(articles, i + 1, Append(kept, articles[i]), threshold)

deduplicateLastWins(articles, threshold) ==
  IF Len(articles) = 0 THEN <<>>
  ELSE DedupLastWinsFrom(articles, 1, <<>>,
         IF threshold = Undefined THEN DefaultThreshold ELSE Get(threshold))

deduplicateArticles(articles, threshold) ==
  IF Len(articles) = 0 THEN <<>>
  ELSE DedupFrom(articles, 1, <<>>,
         IF threshold = Undefined THEN DefaultThreshold ELSE Get(threshold))

-----------------------------------------------------------------------------
(* balanceArticleSelection *)

\* Array.prototype.slice(0, n) and slice(n), for n >= 0.
SliceTo(s, n) == SubSeq(s, 1, Min(n, Len(s)))
SliceFrom(s, n) == SubSeq(s, n + 1, Len(s))

RECURSIVE Flat(_)
Flat(ss) == IF Len(ss) = 0 THEN <<>> ELSE Head(ss) \o Flat(Tail(ss))

\* article.metadata?.perspective || article.metadata?.feedType
PerspectiveId(article) ==
  IF article.perspective # Undefined /\ Len(Get(article.perspective)) > 0
  THEN article.perspective
  ELSE article.feedType

\* perspectives.find(p => p.id === pId) finds a declared perspective.
IsDeclared(perspectives, pId) ==
  \E k \in 1..Len(perspectives) : Some(perspectives[k].id) = pId

\* buckets[id] once the articles are sorted into buckets.
Bucket(articles, id) ==
  SelectSeq(articles, LAMBDA a : PerspectiveId(a) = Some(id))

OtherArticles(articles, perspectives) ==
  SelectSeq(articles, LAMBDA a : ~IsDeclared(perspectives, PerspectiveId(a)))

\* Math.floor(maxArticles / perspectives.length), read only when some
\* perspective is declared.
TargetPerPerspective(maxArticles, perspectives) ==
  maxArticles \div Len(perspectives)

\* Step 1: up to the target from each perspective, in declared order.
TakeTargets(articles, maxArticles, perspectives) ==
  Flat([k \in 1..Len(perspectives) |->
          SliceTo(Bucket(articles, perspectives[k].id),
                  TargetPerPerspective(maxArticles, perspectives))])

\* extras[id], for every declared id.
InitialExtras(articles, maxArticles, perspectives) ==
  [id \in {perspectives[k].id : k \in 1..Len(perspectives)} |->
     SliceFrom(Bucket(articles, id),
               TargetPerPerspective(maxArticles, perspectives))]

\* One pass of the for loop inside the while loop, from perspective k on;
\* st is [balanced, extras, added].
RECURSIVE RoundFrom(_, _, _, _)
RoundFrom(st, k, maxArticles, perspectives) ==
  IF k > Len(perspectives) THEN st
  ELSE IF Len(st.balanced) >= maxArticles THEN st
  ELSE LET id == perspectives[k].id
       IN  IF Len(st.extras[id]) > 0
           THEN RoundFrom([balanced |-> Append(st.balanced, Head(st.extras[id])),
                           extras |-> [st.extras EXCEPT ![id] = Tail(@)],
                           added |-> TRUE],
                          k + 1, maxArticles, perspectives)
           ELSE RoundFrom(st, k + 1, maxArticles, perspectives)

\* The while loop of step 2.
RECURSIVE RoundRobin(_, _, _)
RoundRobin(st, maxArticles, perspectives) ==
  IF Len(st.balanced) < maxArticles /\ st.added
  THEN RoundRobin(RoundFrom([st EXCEPT !.added = FALSE], 1, maxArticles,
                            perspectives),
                  maxArticles, perspectives)
  ELSE st

\* Step 2, without the round robin over the extras.
FillExtrasNone(balanced, articles, maxArticles, perspectives) == balanced

FillExtras(balanced, articles, maxArticles, perspectives) ==
  IF Len(balanced) < maxArticles
  THEN RoundRobin([balanced |-> balanced,
                   extras |-> InitialExtras(articles, maxArticles, perspectives),
                   added |-> TRUE],
                  maxArticles, perspectives).balanced
  ELSE balanced

\* Step 3: the other articles, while there is room.
FillOthersNone(balanced, others, maxArticles) == balanced
FillOthersAlways(balanced, others, maxArticles) == balanced \o others
FillOthers(balanced, others, maxArticles) ==
  IF Len(balanced) < maxArticles /\ Len(others) > 0
  THEN balanced \o SliceTo(others, maxArticles - Len(balanced))
  ELSE balanced

\* The part of the function after the two early returns.
BalanceBuckets(articles, maxArticles, perspectives) ==
  FillOthers(
    FillExtras(TakeTargets(articles, maxArticles, perspectives),
               articles, maxArticles, perspectives),
    OtherArticles(articles, perspectives),
    maxArticles)

\* The variant that always takes the simple slice.
balanceSliceOnly(articles, maxArticles, minArticlesPerPerspective, topic) ==
  SliceTo(articles, maxArticles)

\* The selection, given up when a perspective has fewer articles than the
\* minimum.
balanceEnforcingMinimum(articles, maxArticles, minArticlesPerPerspective, topic) ==
  IF Len(articles) = 0 THEN <<>>
  ELSE IF topic = Undefined \/ Get(topic).perspectives = Undefined
       THEN SliceTo(articles, maxArticles)
       ELSE IF \E k \in 1..Len(Get(Get(topic).perspectives)) :
                 Len(Bucket(articles, Get(Get(topic).perspectives)[k].id))
                   < minArticlesPerPerspective
            THEN <<>>
            ELSE BalanceBuckets(articles, maxArticles, Get(Get(topic).perspectives))

\* topic is optional; topic.perspectives is optional.
balanceArticleSelection(articles, maxArticles, minArticlesPerPerspective, topic) ==
  IF Len(articles) = 0 THEN <<>>
  ELSE IF topic = Undefined \/ Get(topic).perspectives = Undefined
       THEN SliceTo(articles, maxArticles)
       ELSE BalanceBuckets(articles, maxArticles, Get(Get(topic).perspectives))

-----------------------------------------------------------------------------
(* retryWithBackoff *)

\* The default number of attempts and the default base delay in milliseconds.
MaxRetries == 3
BaseDelay == 1000

RECURSIVE Pow2(_)
Pow2(n) == IF n = 0 THEN 1 ELSE 2 * Pow2(n - 1)

\* The wait after the failure of attempt i (counted from 0).
RetryDelayDoubled(i) == BaseDelay * Pow2(i + 1)
RetryDelay(i) == BaseDelay * Pow2(i)

-----------------------------------------------------------------------------
(* parseRSSFeed *)

venezuelan == <<"v","e","n","e","z","u","e","l","a","n">>
international == <<"i","n","t","e","r","n","a","t","i","o","n","a","l">>
us == <<"u","s">>
Untitled == <<"U","n","t","i","t","l","e","d">>
GoogleNews == <<"G","o","o","g","l","e"," ","N","e","w","s">>

\* The positions at which " - " starts in s.
DashPositions(s) ==
  {i \in 1..(Len(s) - 2) : s[i] = " " /\ s[i + 1] = "-" /\ s[i + 2] = " "}

Max(S) == CHOOSE x \in S : \A y \in S : y <= x

\* titleParts.slice(0, -1).join(" - ") when the title has a " - ", else the
\* title itself: Google News titles read "Article Title - Source Name".
TitleOf(rawTitle) ==
  IF rawTitle = Undefined THEN Undefined
  ELSE IF DashPositions(Get(rawTitle)) = {} THEN rawTitle
  ELSE Some(SubSeq(Get(rawTitle), 1, Max(DashPositions(Get(rawTitle))) - 1))

\* titleParts[titleParts.length - 1], else "Google News".
SourceOf(rawTitle) ==
  IF rawTitle = Undefined \/ DashPositions(Get(rawTitle)) = {} THEN GoogleNews
  ELSE SubSeq(Get(rawTitle), Max(DashPositions(Get(rawTitle))) + 3,
              Len(Get(rawTitle)))

\* x || fallback for an optional string x: undefined and "" are falsy.
OrElse(x, fallback) ==
  IF x = Undefined \/ Len(Get(x)) = 0 THEN fallback ELSE Get(x)

\* The perspective of a feed: its override in lower case, else the default
\* of its language and region.
DerivedPerspective(language, region, perspective) ==
  IF perspective # Undefined /\ Len(Get(perspective)) > 0
  THEN ToLowerCase(Get(perspective))
  ELSE IF language = "es" /\ region = "VE" THEN venezuelan
  ELSE IF region = "US" THEN us
  ELSE international

\* The records parseRSSFeed returns for the items of a feed.  A date is
\* [valid, day]: an unparsable date string is not valid.  origin is the
\* identity of the record (feed position, item position).
parseRSSFeed(items, language, region, perspective, feedIdx, now) ==
  [k \in 1..Len(items) |->
     [origin |-> <<feedIdx, k>>,
      title |-> OrElse(TitleOf(items[k].title), Untitled),
      url |-> OrElse(items[k].link, <<>>),
      publishedAt |-> IF items[k].pubDate = Undefined
                      THEN [valid |-> TRUE, day |-> now]
                      ELSE Get(items[k].pubDate),
      source |-> SourceOf(items[k].title),
      language |-> language,
      region |-> region,
      feedType |-> Some(DerivedPerspective(language, region, perspective)),
      perspective |-> Some(DerivedPerspective(language, region, perspective))]]

-----------------------------------------------------------------------------
(* fetchNewsForTopic *)

DefaultMaxArticles == 10
DefaultMaxAgeDays == 7

\* settings.maxArticlesPerTopic || 10
MaxArticlesOf(settings) ==
  IF settings.maxArticlesPerTopic = Undefined
     \/ Get(settings.maxArticlesPerTopic) = 0
  THEN DefaultMaxArticles
  ELSE Get(settings.maxArticlesPerTopic)

\* parseInt(settings.articleMaxAge || "7d")
MaxAgeDaysOf(settings) ==
  IF settings.articleMaxAge = Undefined THEN DefaultMaxAgeDays
  ELSE Get(settings.articleMaxAge)

\* new Date(article.publishedAt) >= cutoffDate; an invalid date compares false.
IsRecent(article, cutoffDay) ==
  article.publishedAt.valid /\ article.publishedAt.day >= cutoffDay

RecentArticles(articles, cutoffDay) ==
  SelectSeq(articles, LAMBDA a : IsRecent(a, cutoffDay))

\* `${feed.language}-${feed.region}`
FeedKey(feed) == <<feed.language, feed.region>>

\* feed.query || topic.query
QueryOf(feed, topicQuery) == IF feed.query # Undefined THEN feed.query ELSE topicQuery

\* An insertion-ordered map (an object with string keys, a Map) as a sequence
\* of <<key, value>>: setting a key that is present replaces its value where
\* it stands, setting a new key appends.
MapSet(entries, key, value) ==
  IF \E k \in 1..Len(entries) : entries[k][1] = key
  THEN [k \in 1..Len(entries) |->
          IF entries[k][1] = key THEN <<key, value>> ELSE entries[k]]
  ELSE Append(entries, <<key, value>>)

MapValues(entries) == [k \in 1..Len(entries) |-> entries[k][2]]

RECURSIVE MapFromPairs(_, _)
MapFromPairs(pairs, entries) ==
  IF Len(pairs) = 0 THEN entries
  ELSE MapFromPairs(Tail(pairs), MapSet(entries, Head(pairs)[1], Head(pairs)[2]))

\* Array.from(new Map(allArticles.map((a) => [a.url, a])).values())
UniqueByUrl(articles) ==
  MapValues(MapFromPairs([k \in 1..Len(articles) |->
                            <<articles[k].url, articles[k]>>], <<>>))

\* Array.prototype.sort with (a, b) => new Date(b.publishedAt) - new
\* Date(a.publishedAt): stable, newest first.  Insert(sorted, a) puts a after
\* every element that is not older than it.
RECURSIVE InsertBeforeTies(_, _)
InsertBeforeTies(sortedPrefix, a) ==
  IF Len(sortedPrefix) = 0 THEN <<a>>
  ELSE IF Head(sortedPrefix).publishedAt.day > a.publishedAt.day
       THEN <<Head(sortedPrefix)>> \o InsertBeforeTies(Tail(sortedPrefix), a)
       ELSE <<a>> \o sortedPrefix

RECURSIVE InsertByDate(_, _)
InsertByDate(sortedPrefix, a) ==
  IF Len(sortedPrefix) = 0 THEN <<a>>
  ELSE IF Head(sortedPrefix).publishedAt.day >= a.publishedAt.day
       THEN <<Head(sortedPrefix)>> \o InsertByDate(Tail(sortedPrefix), a)
       ELSE <<a>> \o sortedPrefix

RECURSIVE SortByDate(_)
SortByDate(articles) ==
  IF Len(articles) = 0 THEN <<>>
  ELSE InsertByDate(SortByDate(SubSeq(articles, 1, Len(articles) - 1)),
                    articles[Len(articles)])

\* deduplicationThreshold && deduplicationThreshold > 0
DedupConfigured(settings) ==
  /\ settings.deduplicationSimilarityThreshold # Undefined
  /\ Get(settings.deduplicationSimilarityThreshold) > 0

Deduplicated(unique, settings) ==
  IF DedupConfigured(settings)
  THEN deduplicateArticles(unique, settings.deduplicationSimilarityThreshold)
  ELSE unique

\* minArticlesPerFeed && minArticlesPerFeed > 0
BalancingConfiguredWhenSet(settings) == settings.minArticlesPerFeed # Undefined
BalancingConfigured(settings) ==
  /\ settings.minArticlesPerFeed # Undefined
  /\ Get(settings.minArticlesPerFeed) > 0

FinalArticles(sortedArticles, settings, theTopic) ==
  IF BalancingConfigured(settings)
  THEN balanceArticleSelection(sortedArticles, MaxArticlesOf(settings),
                               Get(settings.minArticlesPerFeed), Some(theTopic))
  ELSE SliceTo(sortedArticles, MaxArticlesOf(settings))

-----------------------------------------------------------------------------
(* State *)

VARIABLES
  \* a call of jaccardSimilarity, and a call with the arguments swapped
  str1, str2, similarity, swapped,
  \* a call of deduplicateArticles, and a second call on what it returned
  dArticles, dThreshold, uniqueArticles, uniqueAgain,
  \* a call of balanceArticleSelection
  bArticles, bMaxArticles, bMinPerPerspective, bTopic, balanced,
  \* a call of fetchNewsForTopic: its arguments,
  topic, settings,
  \* where the run stands: "loop" at the head of the loop over topic.rssFeeds,
  \* "attempt" inside retryWithBackoff, "returned" after fetchNewsForTopic
  \* returned; the positions of processTopic and handleScheduled are listed
  \* with their actions,
  pc,
  \* the position in topic.rssFeeds of the feed at hand, the attempt counter i
  \* of retryWithBackoff and the wait that preceded the attempt,
  feedIdx, attempt, delay,
  \* its locals,
  feedArticles, allArticles, uniqueByUrl, deduplicated, sorted, finalArticles,
  \* and what happened to each feed: its status ("pending", "skipped",
  \* "failed" or "delivered") and the recent articles it delivered
  fetched,
  \* a call of processTopic: what summarizeArticles and generateHugoMarkdown
  \* returned, the calls made downstream of the fetch, the files committed,
  \* and the result returned,
  summary, markdown, calls, commits, result,
  \* a call of handleScheduled: the topics of the configuration, the active
  \* ones, the position in them, the results object and the return value
  configTopics, activeTopics, topicIdx, results, runResult

jaccardVars == <<str1, str2, similarity, swapped>>
dedupVars == <<dArticles, dThreshold, uniqueArticles, uniqueAgain>>
balanceVars == <<bArticles, bMaxArticles, bMinPerPerspective, bTopic, balanced>>

fetchVars ==
  <<topic, settings, pc, feedIdx, attempt, delay, feedArticles, allArticles,
    uniqueByUrl, deduplicated, sorted, finalArticles, fetched>>

processVars == <<summary, markdown, calls, commits, result>>
runVars == <<configTopics, activeTopics, topicIdx, results, runResult>>

vars == <<jaccardVars, dedupVars, balanceVars, fetchVars, processVars, runVars>>

\* The return value of a call: none while the call has not returned.
Pending == <<>>
Returned(v) == <<v>>

JaccardIdle ==
  str1 = <<>> /\ str2 = <<>> /\ similarity = Pending /\ swapped = Pending
DedupIdle ==
  /\ dArticles = <<>> /\ dThreshold = Undefined
  /\ uniqueArticles = Pending /\ uniqueAgain = Pending
BalanceIdle ==
  /\ bArticles = <<>> /\ bMaxArticles = 0 /\ bMinPerPerspective = 0
  /\ bTopic = Undefined /\ balanced = Pending

FetchLocalsIdle ==
  /\ topic = Undefined /\ settings = Undefined
  /\ feedIdx = 0 /\ attempt = 0 /\ delay = 0
  /\ feedArticles = <<>> /\ allArticles = Pending /\ uniqueByUrl = Pending
  /\ deduplicated = Pending /\ sorted = Pending /\ finalArticles = Pending
  /\ fetched = <<>>

FetchIdle == pc = "idle" /\ FetchLocalsIdle

ProcessIdle ==
  /\ summary = Pending /\ markdown = Pending /\ calls = <<>> /\ commits = <<>>
  /\ result = Pending

RunIdle ==
  /\ configTopics = <<>> /\ activeTopics = Pending /\ topicIdx = 0
  /\ results = Undefined /\ runResult = Pending

-----------------------------------------------------------------------------
(* Inputs *)

\* All sequences over S of length at most n.
SeqsUpTo(S, n) == UNION {[1..k -> S] : k \in 0..n}

sun == <<"s","u","n">>
Sun == <<"S","u","n">>
sea == <<"s","e","a">>
war == <<"w","a","r">>
oil == <<"o","i","l">>
gas == <<"g","a","s">>
of == <<"o","f">>
seaTabWar == sea \o <<"\t">> \o war

\* words.join(" ")
RECURSIVE Join(_)
Join(words) ==
  IF Len(words) = 0 THEN <<>>
  ELSE IF Len(words) = 1 THEN words[1]
  ELSE words[1] \o <<" ">> \o Join(Tail(words))

\* The words strings are built of; the empty word gives leading, trailing and
\* doubled white space.
Words == {sun, Sun, sea, of, <<>>, seaTabWar}

Strings == {Join(ws) : ws \in SeqsUpTo(Words, MaxWords)}

\* Titles of the articles handed to deduplicateArticles.
Titles ==
  { Join(<<sun, sea, war>>), Join(<<sea, war, oil>>), Join(<<war, oil, gas>>),
    Join(<<Sun, <<>>, seaTabWar>>), of, <<>> }

Thresholds == {Undefined, Some(0), Some(50), Some(100)}

\* The articles of a unit test: the i-th has id i.
TitledArticles(titles) ==
  [i \in 1..Len(titles) |-> [id |-> i, title |-> titles[i]]]

\* A perspective tag no topic of the model declares.
japan == <<"j","a","p","a","n">>

TaggedArticles(tags) ==
  [i \in 1..Len(tags) |->
     [id |-> i, perspective |-> Some(tags[i]), feedType |-> Undefined]]

PerspectiveDef(id) == [id |-> id, name |-> id]

\* The topic argument: absent, without perspectives, or declaring a list.
BalanceTopics ==
  {Undefined, Some([perspectives |-> Undefined])}
  \cup {Some([perspectives |-> Some(ps)]) :
          ps \in {<<>>, <<PerspectiveDef(us)>>,
                  <<PerspectiveDef(us), PerspectiveDef(venezuelan)>>,
                  <<PerspectiveDef(venezuelan), PerspectiveDef(us)>>,
                  <<PerspectiveDef(us), PerspectiveDef(us)>>,
                  <<PerspectiveDef(us), PerspectiveDef(us),
                    PerspectiveDef(venezuelan)>>}}

-----------------------------------------------------------------------------
(* Calls of jaccardSimilarity *)

InitJaccard ==
  /\ str1 \in Strings /\ str2 \in Strings
  /\ similarity = Pending /\ swapped = Pending
  /\ DedupIdle /\ BalanceIdle /\ FetchIdle /\ ProcessIdle /\ RunIdle

CallJaccard ==
  /\ similarity = Pending
  /\ similarity' = Returned(jaccardSimilarity(str1, str2))
  /\ UNCHANGED <<str1, str2, swapped, dedupVars, balanceVars, fetchVars,
                 processVars, runVars>>

CallJaccardSwapped ==
  /\ swapped = Pending
  /\ swapped' = Returned(jaccardSimilarity(str2, str1))
  /\ UNCHANGED <<str1, str2, similarity, dedupVars, balanceVars, fetchVars,
                 processVars, runVars>>

NextJaccard == CallJaccard \/ CallJaccardSwapped

SpecJaccard == InitJaccard /\ [][NextJaccard]_vars

-----------------------------------------------------------------------------
(* Calls of deduplicateArticles *)

InitDedup ==
  /\ dArticles \in {TitledArticles(ts) : ts \in SeqsUpTo(Titles, MaxDedupLen)}
  /\ dThreshold \in Thresholds
  /\ uniqueArticles = Pending /\ uniqueAgain = Pending
  /\ JaccardIdle /\ BalanceIdle /\ FetchIdle /\ ProcessIdle /\ RunIdle

CallDedup ==
  /\ uniqueArticles = Pending
  /\ uniqueArticles' = Returned(deduplicateArticles(dArticles, dThreshold))
  /\ UNCHANGED <<dArticles, dThreshold, uniqueAgain, jaccardVars, balanceVars, fetchVars,
                 processVars, runVars>>

CallDedupAgain ==
  /\ uniqueArticles # Pending /\ uniqueAgain = Pending
  /\ uniqueAgain' = Returned(deduplicateArticles(Get(uniqueArticles), dThreshold))
  /\ UNCHANGED <<dArticles, dThreshold, uniqueArticles, jaccardVars, balanceVars,
                 fetchVars, processVars, runVars>>

NextDedup == CallDedup \/ CallDedupAgain

SpecDedup == InitDedup /\ [][NextDedup]_vars

-----------------------------------------------------------------------------
(* Calls of balanceArticleSelection *)

InitBalance ==
  /\ bArticles \in {TaggedArticles(tags) :
                      tags \in SeqsUpTo({us, venezuelan, japan}, MaxBalanceLen)}
  /\ bMaxArticles \in 0..MaxBalanceTotal
  /\ bMinPerPerspective \in 0..MaxMinPerPerspective
  /\ bTopic \in BalanceTopics
  /\ balanced = Pending
  /\ JaccardIdle /\ DedupIdle /\ FetchIdle /\ ProcessIdle /\ RunIdle

CallBalance ==
  /\ balanced = Pending
  /\ balanced' = Returned(balanceArticleSelection(bArticles, bMaxArticles,
                                                  bMinPerPerspective, bTopic))
  /\ UNCHANGED <<bArticles, bMaxArticles, bMinPerPerspective, bTopic,
                 jaccardVars, dedupVars, fetchVars,
                 processVars, runVars>>

NextBalance == CallBalance

SpecBalance == InitBalance /\ [][NextBalance]_vars

-----------------------------------------------------------------------------
(* Calls of fetchNewsForTopic *)

\* The day of the run, in days.
Now == 10

Date(day) == Some([valid |-> TRUE, day |-> day])
InvalidDate == Some([valid |-> FALSE, day |-> 0])

url1 == <<"u","1">>
url2 == <<"u","2">>
url3 == <<"u","3">>
cnn == <<"c","n","n">>

\* Items a feed source delivers: title, link and pubDate are optional.
itemA ==
  [title |-> Some(Join(<<Sun, sea, war, <<"-">>, cnn>>)), link |-> Some(url1),
   pubDate |-> Date(Now - 1)]
itemB ==
  [title |-> Some(Join(<<sun, sea, war, oil>>)), link |-> Some(url2),
   pubDate |-> Date(Now - 2)]
itemC ==
  [title |-> Some(gas), link |-> Some(url1), pubDate |-> Date(Now - 2)]
itemOld ==
  [title |-> Some(oil), link |-> Some(url3),
   pubDate |-> Date(Now - DefaultMaxAgeDays - 2)]
itemBare == [title |-> Undefined, link |-> Undefined, pubDate |-> Undefined]
itemFuture ==
  [title |-> Some(of), link |-> Some(url3), pubDate |-> Date(Now + 1)]
itemBad ==
  [title |-> Some(war), link |-> Some(url2), pubDate |-> InvalidDate]

\* What a successful fetch of a feed may deliver: recent items, items of all
\* ages, or nothing recent (an old item and one whose pubDate is no date).
Responses ==
  { <<itemA, itemB>>, <<itemOld, itemC, itemBare, itemFuture>>,
    <<itemOld, itemBad>> }

queryA == <<"q","a">>
queryB == <<"q","b">>

\* The feed configurations topics are built of.
feedVE ==
  [type |-> "google_news", language |-> "es", region |-> "VE",
   query |-> Some(queryA), perspective |-> Undefined]
feedUS ==
  [type |-> "google_news", language |-> "en", region |-> "US",
   query |-> Some(queryA), perspective |-> Undefined]
feedUSOverride ==
  [type |-> "google_news", language |-> "en", region |-> "US",
   query |-> Some(queryB), perspective |-> Some(<<"U","S">>)]
feedNoQuery ==
  [type |-> "google_news", language |-> "fr", region |-> "FR",
   query |-> Undefined, perspective |-> Undefined]
feedOtherType ==
  [type |-> "rss", language |-> "en", region |-> "GB",
   query |-> Some(queryA), perspective |-> Undefined]

\* The feed lists of topics: every list of up to MaxFeeds feeds without an
\* override, lists with a perspective override, lists with feeds that are
\* passed over, and the longer lists in which two feeds share language and
\* region.
FeedLists ==
  (SeqsUpTo({feedVE, feedUS}, MaxFeeds) \ {<<>>})
  \cup {<<feedUSOverride>>, <<feedUS, feedUSOverride>>, <<feedUSOverride, feedVE>>}
  \cup {<<feedNoQuery>>, <<feedOtherType>>, <<feedNoQuery, feedUS>>,
         <<feedVE, feedOtherType>>, <<feedOtherType, feedNoQuery>>}
  \cup {<<feedUS, feedUSOverride, feedVE>>, <<feedVE, feedUS, feedUSOverride>>,
         <<feedUS, feedVE, feedUS>>}

TopicName(k) == <<"t", k>>

TopicsOfModel ==
  [ name : {TopicName(1)},
    query : {Undefined},
    rssFeeds : FeedLists,
    perspectives : {Undefined,
                    Some(<<PerspectiveDef(venezuelan), PerspectiveDef(us)>>)} ]

SettingsOfModel ==
  [ maxArticlesPerTopic : {Undefined, Some(0), Some(2)},
    articleMaxAge : {Undefined},
    minArticlesPerFeed : {Undefined, Some(0), Some(1)},
    deduplicationSimilarityThreshold : {Undefined, Some(50)} ]

\* What happened to a feed: its status, the records parsed from its response
\* and those of them that are recent.
FeedOutcome(status, parsed, articles) ==
  [status |-> status, parsed |-> parsed, articles |-> articles]

\* processTopic has called fetchNewsForTopic, which stands before its loop.
InitLocals ==
  /\ pc = "loop"
  /\ feedIdx = 1 /\ attempt = 0 /\ delay = 0
  /\ feedArticles = <<>>
  /\ allArticles = Pending /\ uniqueByUrl = Pending /\ deduplicated = Pending
  /\ sorted = Pending /\ finalArticles = Pending
  /\ fetched = [k \in 1..Len(topic.rssFeeds) |-> FeedOutcome("pending", <<>>, <<>>)]
  /\ JaccardIdle /\ DedupIdle /\ BalanceIdle /\ ProcessIdle /\ RunIdle

Init ==
  /\ topic \in TopicsOfModel
  /\ settings \in SettingsOfModel
  /\ InitLocals

unitVars == <<jaccardVars, dedupVars, balanceVars>>
resultVars == <<allArticles, uniqueByUrl, deduplicated, sorted, finalArticles>>

Feed == topic.rssFeeds[feedIdx]
AtFeed == pc = "loop" /\ feedIdx <= Len(topic.rssFeeds)

\* cutoffDate: the current date minus maxAgeDays.
CutoffDay == Now - MaxAgeDaysOf(settings)

\* if (feed.type !== "google_news") continue;
SkipOtherType ==
  /\ AtFeed
  /\ Feed.type # "google_news"
  /\ feedIdx' = feedIdx + 1
  /\ fetched' = [fetched EXCEPT ![feedIdx] = FeedOutcome("skipped", <<>>, <<>>)]
  /\ UNCHANGED <<topic, settings, pc, attempt, delay, feedArticles, resultVars,
                 unitVars, processVars, runVars>>

\* No query on the feed nor on the topic: a warning, and the next feed.
SkipNoQuery ==
  /\ AtFeed
  /\ Feed.type = "google_news"
  /\ QueryOf(Feed, topic.query) = Undefined
  /\ feedIdx' = feedIdx + 1
  /\ fetched' = [fetched EXCEPT ![feedIdx] = FeedOutcome("skipped", <<>>, <<>>)]
  /\ UNCHANGED <<topic, settings, pc, attempt, delay, feedArticles, resultVars,
                 unitVars, processVars, runVars>>

\* if (i === maxRetries - 1) throw error
LastAttemptNever(i) == FALSE
LastAttempt(i) == i = MaxRetries - 1

\* retryWithBackoff is entered: i = 0.
BeginFetch ==
  /\ AtFeed
  /\ Feed.type = "google_news"
  /\ QueryOf(Feed, topic.query) # Undefined
  /\ pc' = "attempt" /\ attempt' = 0 /\ delay' = 0
  /\ UNCHANGED <<topic, settings, feedIdx, feedArticles, resultVars, fetched,
                 unitVars, processVars, runVars>>

\* parseRSSFeed returns: the recent articles are stored under the feed key.
AttemptSucceeds ==
  /\ pc = "attempt"
  /\ \E items \in Responses :
       LET articles == parseRSSFeed(items, Feed.language, Feed.region,
                                    Feed.perspective, feedIdx, Now)
           recentArticles == RecentArticles(articles, CutoffDay)
       IN  /\ feedArticles' = MapSet(feedArticles, FeedKey(Feed), recentArticles)
           /\ fetched' = [fetched EXCEPT ![feedIdx] =
                                    FeedOutcome("delivered", articles, recentArticles)]
  /\ pc' = "loop" /\ feedIdx' = feedIdx + 1 /\ attempt' = 0 /\ delay' = 0
  /\ UNCHANGED <<topic, settings, resultVars, unitVars, processVars, runVars>>

\* The operation handed to retryWithBackoff (parseRSSFeed, or the OpenAI
\* completion in summarizeArticles) throws and an attempt is left: wait, then
\* try again.
AttemptFailsRetry ==
  /\ pc \in {"attempt", "summarize"}
  /\ ~LastAttempt(attempt)
  /\ delay' = RetryDelay(attempt)
  /\ attempt' = attempt + 1
  /\ UNCHANGED <<topic, settings, pc, feedIdx, feedArticles, resultVars, fetched,
                 unitVars, processVars, runVars>>

\* parseRSSFeed throws on the last attempt: retryWithBackoff rethrows, the
\* catch of the loop body logs the error and the loop goes on.
AttemptFailsLast ==
  /\ pc = "attempt"
  /\ LastAttempt(attempt)
  /\ fetched' = [fetched EXCEPT ![feedIdx] = FeedOutcome("failed", <<>>, <<>>)]
  /\ pc' = "loop" /\ feedIdx' = feedIdx + 1 /\ attempt' = 0 /\ delay' = 0
  /\ UNCHANGED <<topic, settings, feedArticles, resultVars, unitVars,
                 processVars, runVars>>

\* After the loop: combine, and return [] when nothing was collected;
\* otherwise URL dedup, similarity dedup, sort, selection, return.
SelectArticles ==
  /\ pc = "loop" /\ feedIdx > Len(topic.rssFeeds)
  /\ LET all == Flat(MapValues(feedArticles))
         unique == UniqueByUrl(all)
         uniqueArts == Deduplicated(unique, settings)
         sortedArts == SortByDate(uniqueArts)
     IN  /\ allArticles' = Returned(all)
         /\ IF Len(all) = 0
            THEN /\ finalArticles' = Returned(<<>>)
                 /\ UNCHANGED <<uniqueByUrl, deduplicated, sorted>>
            ELSE /\ uniqueByUrl' = Returned(unique)
                 /\ deduplicated' = Returned(uniqueArts)
                 /\ sorted' = Returned(sortedArts)
                 /\ finalArticles' =
                      Returned(FinalArticles(sortedArts, settings, topic))
  /\ pc' = "returned"
  /\ UNCHANGED <<topic, settings, feedIdx, attempt, delay, feedArticles, fetched,
                 unitVars, processVars, runVars>>

-----------------------------------------------------------------------------
(* processTopic after fetchNewsForTopic returned.  Positions: "summarize"
   inside the retryWithBackoff of summarizeArticles, "summarized" after it
   returned, "markdown" after generateHugoMarkdown returned, "done" after
   processTopic returned. *)

\* The objects processTopic returns; a property that is not set is Undefined.
SkippedResult(name) ==
  [success |-> TRUE, skipped |-> Some(TRUE), topic |-> name,
   articlesCount |-> Undefined, error |-> Undefined]
SuccessResult(name, articlesCount) ==
  [success |-> TRUE, skipped |-> Undefined, topic |-> name,
   articlesCount |-> Some(articlesCount), error |-> Undefined]
FailureAsSkipped(name, message) == SkippedResult(name)
FailureResult(name, message) ==
  [success |-> FALSE, skipped |-> Undefined, topic |-> name,
   articlesCount |-> Undefined, error |-> Some(message)]

Call(fn, name) == [fn |-> fn, topic |-> name]

\* articles.length === 0
NoArticlesNever(articles) == FALSE
NoArticles(articles) == Len(articles) = 0

fetchVarsButPc ==
  <<topic, settings, feedIdx, feedArticles, allArticles, uniqueByUrl,
    deduplicated, sorted, finalArticles, fetched>>

\* No articles: processTopic returns the skipped result.
SkipTopic ==
  /\ pc = "returned"
  /\ NoArticles(Get(finalArticles))
  /\ result' = Returned(SkippedResult(topic.name))
  /\ pc' = "done"
  /\ UNCHANGED <<fetchVarsButPc, attempt, delay, summary, markdown, calls,
                 commits, runVars, unitVars>>

\* summarizeArticles is called: it returns null for a topic without
\* perspectives, and enters retryWithBackoff otherwise.
BeginSummarize ==
  /\ pc = "returned"
  /\ ~NoArticles(Get(finalArticles))
  /\ calls' = Append(calls, Call("summarizeArticles", topic.name))
  /\ IF topic.perspectives = Undefined
     THEN summary' = Returned(Undefined) /\ pc' = "summarized"
     ELSE summary' = summary /\ pc' = "summarize"
  /\ attempt' = 0 /\ delay' = 0
  /\ UNCHANGED <<fetchVarsButPc, markdown, commits, result, runVars, unitVars>>

\* The completion arrives and its content parses: the summary is returned.
SummarizeSucceeds ==
  /\ pc = "summarize"
  /\ summary' = Returned(Some("summary"))
  /\ pc' = "summarized" /\ attempt' = 0 /\ delay' = 0
  /\ UNCHANGED <<fetchVarsButPc, markdown, calls, commits, result, runVars,
                 unitVars>>

\* The completion arrives and JSON.parse throws on its content:
\* summarizeArticles rethrows, processTopic returns the failure.
SummaryUnparsable ==
  /\ pc = "summarize"
  /\ result' = Returned(FailureResult(topic.name, "SyntaxError"))
  /\ pc' = "done" /\ attempt' = 0 /\ delay' = 0
  /\ UNCHANGED <<fetchVarsButPc, summary, markdown, calls, commits, runVars,
                 unitVars>>

\* The completion throws on the last attempt: retryWithBackoff and
\* summarizeArticles rethrow, processTopic returns the failure.
SummarizeFailsLast ==
  /\ pc = "summarize"
  /\ LastAttempt(attempt)
  /\ result' = Returned(FailureResult(topic.name, "OpenAI error"))
  /\ pc' = "done" /\ attempt' = 0 /\ delay' = 0
  /\ UNCHANGED <<fetchVarsButPc, summary, markdown, calls, commits, runVars,
                 unitVars>>

\* generateHugoMarkdown is called: reading summary.overallHighlights throws
\* on the null summary; otherwise the markdown is returned.
GenerateMarkdown ==
  /\ pc = "summarized"
  /\ calls' = Append(calls, Call("generateHugoMarkdown", topic.name))
  /\ IF Get(summary) = Undefined
     THEN /\ result' = Returned(FailureResult(topic.name, "TypeError"))
          /\ pc' = "done"
          /\ markdown' = markdown
     ELSE /\ markdown' = Returned([topic |-> topic.name,
                                   articleCount |-> Len(Get(finalArticles))])
          /\ pc' = "markdown"
          /\ result' = result
  /\ UNCHANGED <<fetchVarsButPc, attempt, delay, summary, commits, runVars,
                 unitVars>>

\* commitToGitHub is called and the PUT is answered ok: the file is written
\* and processTopic returns the success.
CommitSucceeds ==
  /\ pc = "markdown"
  /\ calls' = Append(calls, Call("commitToGitHub", topic.name))
  /\ commits' = Append(commits, Get(markdown))
  /\ result' = Returned(SuccessResult(topic.name, Len(Get(finalArticles))))
  /\ pc' = "done"
  /\ UNCHANGED <<fetchVarsButPc, attempt, delay, summary, markdown, runVars,
                 unitVars>>

\* commitToGitHub is called and the PUT is refused: it throws, processTopic
\* returns the failure.
CommitFails ==
  /\ pc = "markdown"
  /\ calls' = Append(calls, Call("commitToGitHub", topic.name))
  /\ result' = Returned(FailureResult(topic.name, "Failed to commit file"))
  /\ pc' = "done"
  /\ UNCHANGED <<fetchVarsButPc, attempt, delay, summary, markdown, commits,
                 runVars, unitVars>>

\* processTopic downstream of the fetch.
ProcessFetched ==
  \/ SkipTopic
  \/ BeginSummarize
  \/ SummarizeSucceeds
  \/ SummaryUnparsable
  \/ SummarizeFailsLast
  \/ GenerateMarkdown
  \/ CommitSucceeds
  \/ CommitFails

Next ==
  \/ SkipOtherType
  \/ SkipNoQuery
  \/ BeginFetch
  \/ AttemptSucceeds
  \/ AttemptFailsRetry
  \/ AttemptFailsLast
  \/ SelectArticles
  \/ ProcessFetched

Spec == Init /\ [][Next]_vars

-----------------------------------------------------------------------------
(* Calls of fetchNewsForTopic for topics whose feeds override the perspective *)

\* An es-VE feed whose override is written in lower case.
feedLowerOverride ==
  [type |-> "google_news", language |-> "es", region |-> "VE",
   query |-> Some(queryA), perspective |-> Some(us)]

\* A declared perspective id written in upper case.
US == <<"U","S">>

OverrideTopics ==
  [ name : {TopicName(1)},
    query : {Undefined},
    rssFeeds : {<<feedUSOverride>>, <<feedLowerOverride>>,
                <<feedUSOverride, feedVE>>, <<feedVE, feedLowerOverride>>,
                <<feedNoQuery, feedUSOverride>>,
                <<feedOtherType, feedLowerOverride>>},
    perspectives : {Some(<<PerspectiveDef(venezuelan), PerspectiveDef(us)>>),
                    Some(<<PerspectiveDef(venezuelan), PerspectiveDef(US)>>)} ]

OverrideSettings ==
  [ maxArticlesPerTopic : {Some(2)},
    articleMaxAge : {Undefined},
    minArticlesPerFeed : {Undefined, Some(1)},
    deduplicationSimilarityThreshold : {Undefined} ]

InitOverride ==
  /\ topic \in OverrideTopics
  /\ settings \in OverrideSettings
  /\ InitLocals

SpecOverride == InitOverride /\ [][Next]_vars

-----------------------------------------------------------------------------
(* Properties of jaccardSimilarity *)

\* C8: jaccardSimilarity is symmetric: the call with the arguments swapped
\* returns the same score, for all strings, the empty string and strings
\* without a token longer than 2 characters included.
C8_Symmetric ==
  (similarity # Pending /\ swapped # Pending) => similarity = swapped

\* Both calls returned a score strictly between 0 and 1 on different strings.
C8_Witness ==
  /\ similarity # Pending /\ swapped # Pending
  /\ WordSet(str1) # WordSet(str2)
  /\ Get(similarity) = Ratio(1, 2)

\* C9: whenever the token sets of both strings are empty (the pair of two
\* empty strings included), jaccardSimilarity returns 1.
C9_EmptySetsScoreOne ==
  (similarity # Pending /\ WordSet(str1) = {} /\ WordSet(str2) = {})
    => Get(similarity) = One

-----------------------------------------------------------------------------
(* Properties of deduplicateArticles *)

EffectiveThreshold ==
  IF dThreshold = Undefined THEN DefaultThreshold ELSE Get(dThreshold)

\* C6: deduplicateArticles is idempotent: applied to its own output with the
\* same threshold it returns that output, same articles in the same order.
C6_Idempotent ==
  uniqueAgain # Pending => Get(uniqueAgain) = Get(uniqueArticles)

\* The second call returned, after the first call kept two or more articles
\* and discarded one.
C6_Witness ==
  /\ uniqueAgain # Pending
  /\ Len(Get(uniqueArticles)) >= 2
  /\ Len(Get(uniqueArticles)) < Len(dArticles)

-----------------------------------------------------------------------------
(* Properties of balanceArticleSelection *)

\* The number of articles of a list that carry the perspective tag id.
CountOf(articles, id) ==
  Cardinality({k \in 1..Len(articles) : PerspectiveId(articles[k]) = Some(id)})

DeclaresPerspectives == bTopic # Undefined /\ Get(bTopic).perspectives # Undefined
DeclaredPerspectives == Get(Get(bTopic).perspectives)

DistinctIds(perspectives) ==
  \A i, j \in 1..Len(perspectives) :
    i # j => perspectives[i].id # perspectives[j].id

\* The topic declares exactly two perspectives, the budget is even and each
\* perspective has at least half the budget on offer.
TwoWellSupplied ==
  /\ DeclaresPerspectives
  /\ Len(DeclaredPerspectives) = 2
  /\ DistinctIds(DeclaredPerspectives)
  /\ bMaxArticles % 2 = 0
  /\ \A k \in 1..2 :
       CountOf(bArticles, DeclaredPerspectives[k].id) >= bMaxArticles \div 2

\* C3: two declared perspectives, an even maxTotal and at least maxTotal/2
\* articles of each: the result has exactly maxTotal/2 articles of each,
\* however many other articles the input holds.
C3_EvenSplit ==
  (balanced # Pending /\ TwoWellSupplied) =>
    \A k \in 1..2 :
      CountOf(Get(balanced), DeclaredPerspectives[k].id) = bMaxArticles \div 2

\* An even split of 4 out of five articles, the first of them of no declared
\* perspective.
C3_Witness ==
  /\ balanced # Pending /\ TwoWellSupplied
  /\ bMaxArticles = 4
  /\ Len(bArticles) = 5
  /\ PerspectiveId(bArticles[1]) = Some(japan)
  /\ CountOf(Get(balanced), japan) = 0
  /\ Len(Get(balanced)) = 4

\* The perspective tags found on the articles.
TagsOf(articles) == {PerspectiveId(articles[k]) : k \in 1..Len(articles)}

\* C4: called without a topic on articles of two perspective tags, each with
\* at least maxArticles/2 articles and maxArticles even, the result has
\* maxArticles items, exactly maxArticles/2 of each tag.
C4_EvenSplitWithoutTopic ==
  ( /\ balanced # Pending
    /\ bTopic = Undefined
    /\ bMaxArticles % 2 = 0
    /\ Cardinality(TagsOf(bArticles)) = 2
    /\ \A t \in TagsOf(bArticles) :
         CountOf(bArticles, Get(t)) >= bMaxArticles \div 2 )
  => /\ Len(Get(balanced)) = bMaxArticles
     /\ \A t \in TagsOf(bArticles) :
          CountOf(Get(balanced), Get(t)) = bMaxArticles \div 2

\* C5: with distinct declared ids the result has min(maxTotal, number of
\* input articles) articles: a short perspective is backfilled from the
\* others, then from the other bucket.
C5_Backfill ==
  (balanced # Pending /\ DeclaresPerspectives /\ DistinctIds(DeclaredPerspectives))
    => Len(Get(balanced)) = Min(bMaxArticles, Len(bArticles))

\* Three articles of one declared perspective and one of the other, with a
\* budget of 4: all four are returned.
C5_Witness ==
  /\ balanced # Pending /\ DeclaresPerspectives
  /\ Len(DeclaredPerspectives) = 2 /\ DistinctIds(DeclaredPerspectives)
  /\ bMaxArticles = 4
  /\ Len(bArticles) = 4
  /\ \E k \in 1..2 :
       /\ CountOf(bArticles, DeclaredPerspectives[k].id) = 3
       /\ CountOf(bArticles, DeclaredPerspectives[3 - k].id) = 1
       /\ CountOf(Get(balanced), DeclaredPerspectives[k].id) = 3
       /\ CountOf(Get(balanced), DeclaredPerspectives[3 - k].id) = 1

-----------------------------------------------------------------------------
(* Properties of fetchNewsForTopic *)

Returned_ == pc = "returned"

SomeFeedFailed == \E k \in 1..Len(fetched) : fetched[k].status = "failed"

\* C1: a feed that fails on all its attempts is skipped without aborting the
\* loop: every feed is still processed, the function returns, and every
\* recent article of every feed that was fetched is among the combined
\* articles the later stages work on.
C1_FailedFeedSkipped ==
  (Returned_ /\ SomeFeedFailed) =>
    /\ \A k \in 1..Len(fetched) : fetched[k].status # "pending"
    /\ finalArticles # Pending
    /\ \A k \in 1..Len(fetched) :
         \A i \in 1..Len(fetched[k].articles) :
           fetched[k].articles[i] \in Range(Get(allArticles))

\* C2: the list returned for a topic has at most maxArticlesPerTopic
\* articles, on the balancing path and on the truncation path.
C2_AtMostConfiguredMaximum ==
  (Returned_ /\ settings.maxArticlesPerTopic # Undefined) =>
    Len(Get(finalArticles)) <= Get(settings.maxArticlesPerTopic)

\* The position of the first record with the given url.
FirstWithUrl(articles, url) ==
  CHOOSE i \in 1..Len(articles) :
    /\ articles[i].url = url
    /\ \A j \in 1..(i - 1) : articles[j].url # url

\* C10: URL dedup keeps the first occurrence: of the records that share a
\* url the first of the merged sequence survives, and the survivors stand in
\* the order of their first occurrences.
C10_KeepsFirstOccurrence ==
  uniqueByUrl # Pending =>
    LET all == Get(allArticles)
        unique == Get(uniqueByUrl)
    IN  /\ {unique[k].url : k \in 1..Len(unique)} = {all[i].url : i \in 1..Len(all)}
        /\ \A k \in 1..Len(unique) :
             unique[k] = all[FirstWithUrl(all, unique[k].url)]
        /\ \A j, k \in 1..Len(unique) :
             j < k => FirstWithUrl(all, unique[j].url) < FirstWithUrl(all, unique[k].url)

-----------------------------------------------------------------------------
(* What the code does where the statements above fail *)

\* The returned list has at most maxArticles articles, maxArticles being
\* settings.maxArticlesPerTopic || 10.
FetchAtMostMaxArticles ==
  Returned_ => Len(Get(finalArticles)) <= MaxArticlesOf(settings)

\* balanceArticleSelection returns at most maxArticles articles.
BalanceAtMostMaxArticles ==
  balanced # Pending => Len(Get(balanced)) <= bMaxArticles

\* A recent article of a fetched feed is missing from the combined articles
\* only when a later fetched feed has the same language and region.
LossOnlyByKeyReuse ==
  Returned_ =>
    \A k \in 1..Len(fetched) :
      \A i \in 1..Len(fetched[k].articles) :
        \/ fetched[k].articles[i] \in Range(Get(allArticles))
        \/ \E h \in (k + 1)..Len(fetched) :
             /\ fetched[h].status = "delivered"
             /\ FeedKey(topic.rssFeeds[h]) = FeedKey(topic.rssFeeds[k])

\* Of the records that share a url the last of the merged sequence survives,
\* at the position of the first.
UrlDedupKeepsLast ==
  uniqueByUrl # Pending =>
    LET all == Get(allArticles)
        unique == Get(uniqueByUrl)
    IN  /\ \A k \in 1..Len(unique) :
             \E i \in 1..Len(all) :
               /\ unique[k] = all[i]
               /\ \A j \in (i + 1)..Len(all) : all[j].url # all[i].url
        /\ \A j, k \in 1..Len(unique) :
             j < k => FirstWithUrl(all, unique[j].url) < FirstWithUrl(all, unique[k].url)

-----------------------------------------------------------------------------
(* The merge of the feeds *)

\* C11: the merged sequence holds the records of every feed that was
\* fetched: each recent record of each fetched feed, in the declared order of
\* the feeds, also when two feeds share language and region.
C11_MergeHasEveryFeed ==
  allArticles # Pending =>
    Get(allArticles) = Flat([k \in 1..Len(fetched) |-> fetched[k].articles])

-----------------------------------------------------------------------------
(* Properties of processTopic *)

\* The loop over the feeds is over and no feed delivered a recent article:
\* every feed failed, was skipped or returned nothing recent.
NothingCollected ==
  /\ pc \notin {"loop", "attempt"}
  /\ \A k \in 1..Len(fetched) : fetched[k].articles = <<>>

\* C12: when no article survives collection, fetchNewsForTopic returns the
\* empty list without error, the summarizer is never invoked and no file is
\* committed, and the result processTopic returns is the skipped one (success
\* with the skipped flag).
C12_EmptyTopicSkipped ==
  NothingCollected =>
    /\ finalArticles = Returned(<<>>)
    /\ calls = <<>> /\ commits = <<>>
    /\ pc \in {"returned", "done"}
    /\ pc = "done" => result = Returned(SkippedResult(topic.name))

\* processTopic returned for a topic one feed of which failed on all attempts
\* and another was fetched but delivered nothing recent.
C12_Witness ==
  /\ NothingCollected
  /\ pc = "done"
  /\ \E k \in 1..Len(fetched) : fetched[k].status = "failed"
  /\ \E k \in 1..Len(fetched) : fetched[k].status = "delivered"

-----------------------------------------------------------------------------
(* The age of the returned articles *)

\* C13: every record fetchNewsForTopic returns has publishedAt inside the
\* closed window [now - maxAgeDays, now]: older records and records dated
\* after the current time are both excluded.
C13_WithinWindow ==
  finalArticles # Pending =>
    \A k \in 1..Len(Get(finalArticles)) :
      LET publishedAt == Get(finalArticles)[k].publishedAt
      IN  /\ publishedAt.valid
          /\ publishedAt.day >= CutoffDay
          /\ publishedAt.day <= Now

\* What the code keeps: no returned record is older than the cutoff.
NotOlderThanCutoff ==
  finalArticles # Pending =>
    \A k \in 1..Len(Get(finalArticles)) :
      IsRecent(Get(finalArticles)[k], CutoffDay)

-----------------------------------------------------------------------------
(* Properties of retryWithBackoff *)

\* Inside retryWithBackoff, for parseRSSFeed or for the OpenAI completion.
Retrying == pc \in {"attempt", "summarize"}

\* C14: retryWithBackoff with its defaults invokes the operation at most 3
\* times: the attempt in progress is the first, second or third; it follows
\* the failure of the attempt before it and a wait of baseDelay * 2^(i-1)
\* after the i-th failure (1000 ms, then 2000 ms, never more); a success
\* ends the call at once with the result, and the third failure ends it
\* with the error and without a wait.
C14_RetryWithBackoff ==
  [][ /\ Retrying' =>
           /\ attempt' \in 0..2
           /\ delay' = IF attempt' = 0 THEN 0 ELSE BaseDelay * Pow2(attempt' - 1)
           /\ delay' \in {0, 1000, 2000}
      /\ (Retrying /\ pc' = pc) => attempt' = attempt + 1
      /\ (pc = "attempt" /\ pc' # pc) =>
           /\ pc' = "loop" /\ feedIdx' = feedIdx + 1
           /\ fetched'[feedIdx].status \in {"delivered", "failed"}
           /\ fetched'[feedIdx].status = "failed" => attempt = 2
      /\ (pc = "summarize" /\ pc' # pc) =>
           \/ pc' = "summarized" /\ summary' # Pending
           \/ pc' = "done" /\ ~Get(result').success
    ]_vars

\* The third attempt on a feed is in progress, after waits of 1000 ms and
\* 2000 ms, and an earlier feed failed on all of its attempts.
C14_Witness ==
  /\ pc = "attempt" /\ attempt = 2 /\ delay = 2000
  /\ \E k \in 1..Len(fetched) : fetched[k].status = "failed"

-----------------------------------------------------------------------------
(* The selection of fetchNewsForTopic *)

\* C15: fetchNewsForTopic applies the perspective balancing if and only if
\* a positive minimum per perspective is configured; when the setting is
\* unset or zero the result is exactly the first maxArticles records of the
\* recency-sorted sequence.
C15_BalancingIffPositiveMinimum ==
  (finalArticles # Pending /\ sorted # Pending) =>
    LET min == settings.minArticlesPerFeed
        final == Get(finalArticles)
    IN  IF min # Undefined /\ Get(min) > 0
        THEN final = balanceArticleSelection(Get(sorted), MaxArticlesOf(settings),
                                             Get(min), Some(topic))
        ELSE /\ Len(final) = Min(MaxArticlesOf(settings), Len(Get(sorted)))
             /\ \A k \in 1..Len(final) : final[k] = Get(sorted)[k]

\* A minimum of zero is configured and the list returned differs from what
\* balancing with minimum zero selects.
C15_Witness ==
  /\ finalArticles # Pending /\ sorted # Pending
  /\ settings.minArticlesPerFeed = Some(0)
  /\ Get(finalArticles) #
       balanceArticleSelection(Get(sorted), MaxArticlesOf(settings), 0, Some(topic))

-----------------------------------------------------------------------------
(* handleScheduled.  Positions: "start" before the configuration is fetched,
   "topics" at the head of the loop over the active topics, "fetch" inside
   processTopic while fetchNewsForTopic runs, then the positions of
   processTopic, "finished" after the return and "threw" after the rethrow
   of the outer catch. *)

RunTopic(name, active, perspectives) ==
  [name |-> name, active |-> active, perspectives |-> perspectives]

\* The configurations of a run: the k-th topic is named TopicName(k), is
\* active or not, and declares perspectives or not.
TopicConfigs ==
  UNION { { [k \in 1..n |-> RunTopic(TopicName(k), flags[k].active,
                                     flags[k].perspectives)] :
              flags \in [1..n -> [active : BOOLEAN,
                                  perspectives :
                                    {Undefined,
                                     Some(<<PerspectiveDef(venezuelan),
                                            PerspectiveDef(us)>>)}]] } :
          n \in 0..MaxTopics }

\* What fetchNewsForTopic may return to processTopic: no article, or the
\* articles of a feed.
FetchedArticles ==
  {<<>>, parseRSSFeed(<<itemA, itemB>>, "en", "US", Undefined, 1, Now)}

\* What purgeCloudflareCache may return: skipped for lack of credentials,
\* purged, or failed.
PurgeResults ==
  { [success |-> FALSE, skipped |-> Some(TRUE), error |-> Undefined],
    [success |-> TRUE, skipped |-> Undefined, error |-> Undefined],
    [success |-> FALSE, skipped |-> Undefined, error |-> Some("Failed to purge cache")] }

\* const results = { timestamp, topics: [], success: 0, failed: 0, skipped: 0 }
NoResults ==
  [topics |-> <<>>, success |-> 0, failed |-> 0, skipped |-> 0,
   cachePurge |-> Undefined]

InitRun ==
  /\ configTopics \in TopicConfigs
  /\ activeTopics = Pending /\ topicIdx = 0
  /\ results = NoResults /\ runResult = Pending
  /\ pc = "start"
  /\ FetchLocalsIdle /\ ProcessIdle
  /\ JaccardIdle /\ DedupIdle /\ BalanceIdle

\* topicsConfig.topics.filter((t) => t.active)
AllTopics(topics) == topics
ActiveTopics(topics) == SelectSeq(topics, LAMBDA t : t.active)

\* results.topics.push(result), and the counter of the result's kind.
PushResultUnlessFailed(res, r) ==
  IF r.success
  THEN IF r.skipped # Undefined
       THEN [res EXCEPT !.topics = Append(@, r), !.skipped = @ + 1]
       ELSE [res EXCEPT !.topics = Append(@, r), !.success = @ + 1]
  ELSE res
PushResult(res, r) ==
  IF r.success
  THEN IF r.skipped # Undefined
       THEN [res EXCEPT !.topics = Append(@, r), !.skipped = @ + 1]
       ELSE [res EXCEPT !.topics = Append(@, r), !.success = @ + 1]
  ELSE [res EXCEPT !.topics = Append(@, r), !.failed = @ + 1]

fetchLocals ==
  <<settings, feedIdx, attempt, delay, feedArticles, allArticles, uniqueByUrl,
    deduplicated, sorted, fetched>>

\* fetchTopicsConfig returns the configuration: the active topics are kept.
FetchConfig ==
  /\ pc = "start"
  /\ activeTopics' = Returned(ActiveTopics(configTopics))
  /\ topicIdx' = 1
  /\ pc' = "topics"
  /\ UNCHANGED <<topic, finalArticles, fetchLocals, processVars, configTopics,
                 results, runResult, unitVars>>

\* fetchTopicsConfig throws: the outer catch logs and rethrows.
FetchConfigFails ==
  /\ pc = "start"
  /\ pc' = "threw"
  /\ UNCHANGED <<topic, finalArticles, fetchLocals, processVars, runVars,
                 unitVars>>

\* The loop takes the next active topic and calls processTopic, which calls
\* fetchNewsForTopic.
StartTopic ==
  /\ pc = "topics"
  /\ topicIdx <= Len(Get(activeTopics))
  /\ topic' = Get(activeTopics)[topicIdx]
  /\ calls' = Append(calls, Call("fetchNewsForTopic", topic'.name))
  /\ finalArticles' = Pending
  /\ summary' = Pending /\ markdown' = Pending /\ result' = Pending
  /\ pc' = "fetch"
  /\ UNCHANGED <<fetchLocals, commits, runVars, unitVars>>

\* fetchNewsForTopic returns its articles; the loop over the feeds that
\* produces them is followed step by step in Spec.
FetchReturns ==
  /\ pc = "fetch"
  /\ \E articles \in FetchedArticles : finalArticles' = Returned(articles)
  /\ pc' = "returned"
  /\ UNCHANGED <<topic, fetchLocals, processVars, runVars, unitVars>>

\* fetchNewsForTopic throws (reading a setting of a configuration without
\* settings, for one): the catch of processTopic returns the failure.
FetchThrows ==
  /\ pc = "fetch"
  /\ result' = Returned(FailureResult(topic.name, "TypeError"))
  /\ pc' = "done"
  /\ UNCHANGED <<topic, finalArticles, fetchLocals, summary, markdown, calls,
                 commits, runVars, unitVars>>

\* processTopic returned: the result is pushed and counted, and after the
\* wait of 2000 ms the loop goes on.
RecordResult ==
  /\ pc = "done"
  /\ activeTopics # Pending
  /\ results' = PushResult(results, Get(result))
  /\ topicIdx' = topicIdx + 1
  /\ pc' = "topics"
  /\ UNCHANGED <<topic, finalArticles, fetchLocals, processVars, configTopics,
                 activeTopics, runResult, unitVars>>

\* results.success > 0
SummariesCreatedOrNot(res) == TRUE
SummariesCreated(res) == res.success > 0

\* After the loop: purgeCloudflareCache is called if a summary was created,
\* its result (it never throws) is stored, and the results are returned.
FinishRun ==
  /\ pc = "topics"
  /\ topicIdx > Len(Get(activeTopics))
  /\ IF SummariesCreated(results)
     THEN /\ calls' = Append(calls, Call("purgeCloudflareCache", Undefined))
          /\ \E cacheResult \in PurgeResults :
               results' = [results EXCEPT !.cachePurge = Some(cacheResult)]
     ELSE /\ calls' = calls
          /\ results' = results
  /\ runResult' = Returned(results')
  /\ pc' = "finished"
  /\ UNCHANGED <<topic, finalArticles, fetchLocals, summary, markdown, commits,
                 result, configTopics, activeTopics, topicIdx, unitVars>>

NextRun ==
  \/ FetchConfig
  \/ FetchConfigFails
  \/ StartTopic
  \/ FetchReturns
  \/ FetchThrows
  \/ AttemptFailsRetry
  \/ ProcessFetched
  \/ RecordResult
  \/ FinishRun

SpecRun == InitRun /\ [][NextRun]_vars

\* Every collaborator call returns or fails, and the event loop resumes the
\* handler: a step that can be taken is taken.
SpecRunFair == SpecRun /\ WF_vars(NextRun)

-----------------------------------------------------------------------------
(* Properties of handleScheduled *)

\* The topic names of a sequence of topics or of results.
NamesOf(topics) == [k \in 1..Len(topics) |-> topics[k].name]
ResultTopics(res) == [k \in 1..Len(res.topics) |-> res.topics[k].topic]

\* The active topics of the configuration, in configuration order.
ActiveNames ==
  NamesOf(SelectSeq(configTopics, LAMBDA t : t.active))

SomeResultFailed ==
  \E k \in 1..Len(results.topics) : ~results.topics[k].success

\* C16: a failure while processing a topic never prevents the remaining
\* active topics from being processed: once the configuration is fetched the
\* run never throws, the results hold one entry for each active topic
\* processed so far, in configuration order, and when the run returns every
\* active topic has exactly one entry.
C16_FailureDoesNotStopRun ==
  activeTopics # Pending =>
    /\ pc # "threw"
    /\ Len(results.topics) = (IF pc = "finished" THEN Len(ActiveNames)
                              ELSE topicIdx - 1)
    /\ ResultTopics(results) = SliceTo(ActiveNames, Len(results.topics))
    /\ pc = "finished" => runResult = Returned(results)

\* The run returned after the first of three active topics failed and a
\* later one was committed.
C16_Witness ==
  /\ pc = "finished"
  /\ Len(results.topics) = 3
  /\ ~results.topics[1].success
  /\ results.topics[3].success /\ results.topics[3].articlesCount # Undefined

-----------------------------------------------------------------------------
(* The order of the returned articles *)

\* The position of an article in a list that holds it once.
PositionIn(articles, a) == CHOOSE i \in 1..Len(articles) : articles[i] = a

\* Newest first: each publishedAt is at or after the one that follows.
NewestFirst(articles) ==
  \A k \in 1..(Len(articles) - 1) :
    articles[k].publishedAt.day >= articles[k + 1].publishedAt.day

\* C17: before the selection the surviving records are ordered by
\* publishedAt descending, records of equal publishedAt staying in their
\* prior order; where no balancing is applied the returned list is therefore
\* newest first.
C17_SortedNewestFirst ==
  sorted # Pending =>
    LET before == Get(deduplicated)
        after == Get(sorted)
    IN  /\ Len(after) = Len(before)
        /\ Range(after) = Range(before)
        /\ NewestFirst(after)
        /\ \A i, j \in 1..Len(after) :
             (i < j /\ after[i].publishedAt.day = after[j].publishedAt.day)
               => PositionIn(before, after[i]) < PositionIn(before, after[j])
        /\ ~BalancingConfigured(settings) => NewestFirst(Get(finalArticles))

\* The sort moved a record, two records of equal publishedAt stand side by
\* side, and the list is returned without balancing.
C17_Witness ==
  /\ sorted # Pending
  /\ Get(sorted) # Get(deduplicated)
  /\ \E k \in 1..(Len(Get(sorted)) - 1) :
       Get(sorted)[k].publishedAt.day = Get(sorted)[k + 1].publishedAt.day
  /\ ~BalancingConfigured(settings)
  /\ Len(Get(finalArticles)) >= 3

-----------------------------------------------------------------------------
(* balanceArticleSelection without perspectives *)

\* No topic, a topic without perspectives, or a topic with an empty list.
NoDeclaredPerspectives ==
  \/ bTopic = Undefined
  \/ Get(bTopic).perspectives = Undefined
  \/ Len(DeclaredPerspectives) = 0

-----------------------------------------------------------------------------
(* The minimum per perspective *)

\* C19: a perspective with fewer articles than minArticlesPerPerspective is
\* only a warning: for the same articles, maxArticles and perspectives the
\* list returned is the same for every minimum, and a perspective without
\* articles contributes none and does not keep the others from filling the
\* budget.
C19_MinimumOnlyWarns ==
  balanced # Pending =>
    /\ \A m \in 0..MaxMinPerPerspective :
         Get(balanced) = balanceArticleSelection(bArticles, bMaxArticles, m, bTopic)
    /\ (DeclaresPerspectives /\ DistinctIds(DeclaredPerspectives)) =>
         \A k \in 1..Len(DeclaredPerspectives) :
           CountOf(bArticles, DeclaredPerspectives[k].id) = 0 =>
             /\ CountOf(Get(balanced), DeclaredPerspectives[k].id) = 0
             /\ Len(Get(balanced)) = Min(bMaxArticles, Len(bArticles))

\* Five articles of the first of two declared perspectives, none of the
\* second, a budget of 4 and a minimum of 2: four articles of the first are
\* returned.
C19_Witness ==
  /\ balanced # Pending
  /\ DeclaresPerspectives /\ Len(DeclaredPerspectives) = 2
  /\ DistinctIds(DeclaredPerspectives)
  /\ CountOf(bArticles, DeclaredPerspectives[1].id) = 5
  /\ Len(bArticles) = 5
  /\ bMaxArticles = 4 /\ bMinPerPerspective = 2
  /\ Len(Get(balanced)) = 4
  /\ CountOf(Get(balanced), DeclaredPerspectives[1].id) = 4

-----------------------------------------------------------------------------
(* The order inside a perspective *)

IsPrefix(s, t) == Len(s) <= Len(t) /\ \A k \in 1..Len(s) : s[k] = t[k]

\* The perspectives the buckets are made for: none without a declared list.
BucketPerspectives ==
  IF DeclaresPerspectives THEN DeclaredPerspectives ELSE <<>>

\* C20: balanceArticleSelection never reorders the articles of a
\* perspective: the returned articles of each declared perspective, in the
\* order returned, are a prefix of that perspective's bucket in input order,
\* and the returned articles of no declared perspective are a prefix of the
\* other bucket.
C20_PrefixOfEachBucket ==
  balanced # Pending =>
    /\ \A k \in 1..Len(BucketPerspectives) :
         IsPrefix(Bucket(Get(balanced), BucketPerspectives[k].id),
                  Bucket(bArticles, BucketPerspectives[k].id))
    /\ IsPrefix(OtherArticles(Get(balanced), BucketPerspectives),
                OtherArticles(bArticles, BucketPerspectives))

\* The same, for lists of perspectives whose ids are distinct.
PrefixOfEachBucketDistinctIds ==
  DistinctIds(BucketPerspectives) => C20_PrefixOfEachBucket

-----------------------------------------------------------------------------
(* The other bucket *)

\* C21: an article of no declared perspective is in the result only if
\* every article of every declared perspective is in the result, and the
\* other articles stand at the end of the result, in input order.
C21_OthersOnlyAfterDeclared ==
  balanced # Pending =>
    LET out == Get(balanced)
        others == OtherArticles(out, BucketPerspectives)
    IN  /\ Len(others) > 0 =>
             \A k \in 1..Len(BucketPerspectives) :
               Range(Bucket(bArticles, BucketPerspectives[k].id)) \subseteq Range(out)
        /\ IsPrefix(others, OtherArticles(bArticles, BucketPerspectives))
        /\ SliceFrom(out, Len(out) - Len(others)) = others

\* Two declared perspectives with an article each, all of them returned,
\* followed by one of two other articles.
C21_Witness ==
  /\ balanced # Pending
  /\ DeclaresPerspectives /\ Len(DeclaredPerspectives) = 2
  /\ DistinctIds(DeclaredPerspectives)
  /\ \A k \in 1..2 : CountOf(bArticles, DeclaredPerspectives[k].id) = 1
  /\ PerspectiveId(bArticles[1]) = Some(japan)
  /\ Len(bArticles) = 4 /\ bMaxArticles = 3
  /\ Get(balanced)[3] = bArticles[1]

-----------------------------------------------------------------------------
(* The perspective override of a feed *)

\* The feed a record was parsed from.
FeedOf(article) == topic.rssFeeds[article.origin[1]]

DeclaredByTopic ==
  IF topic.perspectives = Undefined THEN <<>> ELSE Get(topic.perspectives)

\* The record comes from a feed with an override that equals the declared id
\* up to letter case.
OverrideMatches(article, id) ==
  /\ FeedOf(article).perspective # Undefined
  /\ ToLowerCase(Get(FeedOf(article).perspective)) = ToLowerCase(id)

\* C22: the perspective override of a feed is matched case-insensitively: a
\* record of a feed whose override equals a declared perspective id up to
\* letter case is in the bucket balanceArticleSelection makes for that
\* perspective.
C22_OverrideCaseInsensitive ==
  sorted # Pending =>
    \A i \in 1..Len(Get(sorted)) :
      \A k \in 1..Len(DeclaredByTopic) :
        OverrideMatches(Get(sorted)[i], DeclaredByTopic[k].id) =>
          Get(sorted)[i] \in Range(Bucket(Get(sorted), DeclaredByTopic[k].id))

\* The same, for declared ids written in lower case.
OverrideMatchesLowerCaseIds ==
  sorted # Pending =>
    \A i \in 1..Len(Get(sorted)) :
      \A k \in 1..Len(DeclaredByTopic) :
        ( /\ OverrideMatches(Get(sorted)[i], DeclaredByTopic[k].id)
          /\ DeclaredByTopic[k].id = ToLowerCase(DeclaredByTopic[k].id) ) =>
          Get(sorted)[i] \in Range(Bucket(Get(sorted), DeclaredByTopic[k].id))

-----------------------------------------------------------------------------
(* The order of the stages *)

\* The records parsed from the feeds fetched up to feed k, under their feed
\* keys, before any filter.
RECURSIVE ParsedByKey(_)
ParsedByKey(k) ==
  IF k = 0 THEN <<>>
  ELSE IF fetched[k].status = "delivered"
       THEN MapSet(ParsedByKey(k - 1), FeedKey(topic.rssFeeds[k]),
                   fetched[k].parsed)
       ELSE ParsedByKey(k - 1)

\* Merge, URL dedup, date filter, similarity dedup, sort, selection.
StagesAsStated ==
  LET recent ==
        RecentArticles(UniqueByUrl(Flat(MapValues(ParsedByKey(Len(fetched))))),
                       CutoffDay)
  IN  IF Len(recent) = 0 THEN <<>>
      ELSE FinalArticles(SortByDate(Deduplicated(recent, settings)),
                         settings, topic)

\* C23: the list fetchNewsForTopic returns is the parsed feed records put
\* through the stages in the stated order: merge, URL dedup, date filter,
\* similarity dedup, recency sort, selection.
C23_StagesInStatedOrder ==
  pc = "returned" => Get(finalArticles) = StagesAsStated

-----------------------------------------------------------------------------
(* Malformed dates *)

\* A record parsed from a feed has a publishedAt that is no date.
SomeMalformedDate ==
  \E k \in 1..Len(fetched) :
    \E i \in 1..Len(fetched[k].parsed) : ~fetched[k].parsed[i].publishedAt.valid

\* C24: a malformed publishedAt on a parsed record makes fetchNewsForTopic
\* raise: it returns no list, and processTopic ends with the failed result.
C24_MalformedDateRaises ==
  SomeMalformedDate =>
    /\ finalArticles = Pending
    /\ pc = "done" => ~Get(result).success

\* What the code does: a record with a malformed publishedAt is dropped by
\* the age filter and the call returns.
MalformedDateDropped ==
  pc = "returned" =>
    \A i \in 1..Len(Get(allArticles)) : Get(allArticles)[i].publishedAt.valid

-----------------------------------------------------------------------------
(* The steps of processTopic *)

\* The collaborator calls of processTopic, in the order of its body.
StepsOfTopic(name) ==
  << Call("summarizeArticles", name), Call("generateHugoMarkdown", name),
     Call("commitToGitHub", name) >>

\* C25: nothing partial is handed downstream. The summarizer is called only
\* with a returned, non-empty selection of at most maxArticles articles; a
\* file is committed only after the summary and the markdown of that same
\* selection were produced; the steps run in order, each at most once, and a
\* topic whose step threw ends failed with no later step run.
C25_NothingPartialDownstream ==
  /\ IsPrefix(calls, StepsOfTopic(topic.name))
  /\ calls # <<>> =>
       /\ finalArticles # Pending
       /\ Len(Get(finalArticles)) \in 1..MaxArticlesOf(settings)
  /\ Len(calls) = 3 =>
       /\ summary # Pending /\ Get(summary) # Undefined
       /\ markdown # Pending
       /\ Get(markdown).articleCount = Len(Get(finalArticles))
  /\ commits # <<>> => Len(calls) = 3 /\ commits = <<Get(markdown)>>
  /\ pc = "done" =>
       /\ Get(result).success /\ Get(result).skipped = Undefined
            <=> commits # <<>>
       /\ Get(result).skipped # Undefined <=> calls = <<>>
       /\ ~Get(result).success <=> calls # <<>> /\ commits = <<>>

\* A topic committed its file for a selection of two articles collected from
\* two feeds, one of which failed.
C25_Witness ==
  /\ pc = "done"
  /\ Len(commits) = 1
  /\ Len(Get(finalArticles)) = 2
  /\ SomeFeedFailed

-----------------------------------------------------------------------------
(* The cache purge *)

PurgeCall == Call("purgeCloudflareCache", Undefined)

PurgeCalls == Cardinality({k \in 1..Len(calls) : calls[k] = PurgeCall})

\* C26: the cache purge is attempted at most once per run, as the last call
\* of the run after every active topic has its result, and only if at least
\* one topic was committed; a run without a committed topic never purges,
\* and whatever the purge answers the run returns its results.
C26_PurgeOnceAfterSuccess ==
  /\ PurgeCalls <= 1
  /\ PurgeCalls = 1 =>
       /\ pc = "finished"
       /\ calls[Len(calls)] = PurgeCall
       /\ Len(results.topics) = Len(Get(activeTopics))
       /\ results.success > 0
       /\ commits # <<>>
  /\ results.cachePurge # Undefined <=> PurgeCalls = 1
  /\ pc = "finished" =>
       /\ runResult = Returned(results)
       /\ results.success = 0 => PurgeCalls = 0
       /\ results.success > 0 => PurgeCalls = 1
  /\ pc = "threw" => PurgeCalls = 0

\* A run with a committed topic, a skipped one and a failed one whose purge
\* failed returned its results.
C26_Witness ==
  /\ pc = "finished"
  /\ runResult # Pending
  /\ results.success > 0 /\ results.skipped > 0 /\ results.failed > 0
  /\ results.cachePurge # Undefined
  /\ Get(results.cachePurge).error # Undefined

-----------------------------------------------------------------------------
(* The round robin *)

\* The articles of the perspective that the result leaves out.
Unselected(id) ==
  Range(Bucket(bArticles, id)) \ Range(Get(balanced))

\* C27: round-robin fairness. In every result a declared perspective that
\* still has an unselected article has at least as many selected articles
\* as any other declared perspective minus one.
C27_RoundRobinFair ==
  balanced # Pending =>
    \A p, q \in 1..Len(BucketPerspectives) :
      LET pId == BucketPerspectives[p].id
          qId == BucketPerspectives[q].id
      IN  pId # qId /\ Unselected(pId) # {} =>
            CountOf(Get(balanced), pId) >= CountOf(Get(balanced), qId) - 1

\* The same, for lists of perspectives whose ids are distinct.
RoundRobinFairDistinctIds ==
  DistinctIds(BucketPerspectives) => C27_RoundRobinFair

-----------------------------------------------------------------------------
(* Selection without duplication *)

\* C28: balanceArticleSelection only selects: for every declared list,
\* lists with a repeated id included, each input article occurs at most once
\* in the result and every result article is an element of the input.
C28_SelectsWithoutDuplicates ==
  balanced # Pending =>
    /\ \A i, j \in 1..Len(Get(balanced)) :
         i # j => Get(balanced)[i] # Get(balanced)[j]
    /\ Range(Get(balanced)) \subseteq Range(bArticles)

\* The same, for lists of perspectives whose ids are distinct.
SelectsWithoutDuplicatesDistinctIds ==
  DistinctIds(BucketPerspectives) => C28_SelectsWithoutDuplicates

\* Every result article is an element of the input, whatever the list.
SelectsFromInput ==
  balanced # Pending => Range(Get(balanced)) \subseteq Range(bArticles)

-----------------------------------------------------------------------------
(* The accounting of a run *)

\* The number of results of a kind among the recorded results.
ResultsThat(P(_)) ==
  Cardinality({k \in 1..Len(results.topics) : P(results.topics[k])})

\* The names of the inactive topics of the configuration.
InactiveNames ==
  {configTopics[k].name : k \in {j \in 1..Len(configTopics) : ~configTopics[j].active}}

\* C29: the accounting of a run. The three counters add up to the number of
\* recorded results, which is the number of active topics processed so far;
\* every result is counted in exactly one counter, the one of its kind; and
\* no inactive topic is fetched, summarized or committed.
C29_RunAccounting ==
  /\ results.success + results.skipped + results.failed = Len(results.topics)
  /\ activeTopics # Pending /\ pc # "finished" =>
       Len(results.topics) = topicIdx - 1
  /\ pc = "finished" => Len(results.topics) = Len(ActiveNames)
  /\ results.success = ResultsThat(LAMBDA r : r.success /\ r.skipped = Undefined)
  /\ results.skipped = ResultsThat(LAMBDA r : r.success /\ r.skipped # Undefined)
  /\ results.failed = ResultsThat(LAMBDA r : ~r.success)
  /\ \A k \in 1..Len(calls) : calls[k].topic \notin InactiveNames
  /\ \A k \in 1..Len(commits) : commits[k].topic \notin InactiveNames

\* A run over an inactive topic between two active ones returned with one
\* topic committed and one failed.
C29_Witness ==
  /\ pc = "finished"
  /\ Len(configTopics) = 3
  /\ configTopics[1].active /\ ~configTopics[2].active /\ configTopics[3].active
  /\ results.success = 1 /\ results.failed = 1

-----------------------------------------------------------------------------
(* Termination *)

\* handleScheduled returned or threw.
RunEnded == pc \in {"finished", "threw"}

\* The run returned with a result for every active topic.
AllTopicsRecorded ==
  /\ pc = "finished"
  /\ runResult # Pending
  /\ ResultTopics(Get(runResult)) = ActiveNames

-----------------------------------------------------------------------------
(* Termination of fetchNewsForTopic and processTopic, step by step *)

\* A step of a retryWithBackoff: the attempt index rises by one on the same
\* feed, or falls back to 0; the feed index never falls. A topic with f
\* feeds therefore makes at most MaxRetries * f fetch attempts.
AttemptsAdvance ==
  /\ feedIdx' >= feedIdx
  /\ attempt' # 0 => attempt' = attempt + 1 /\ feedIdx' = feedIdx

FeedAttemptsBounded == [][AttemptsAdvance]_vars

AttemptBelowMaxRetries == attempt < MaxRetries

\* The steps processTopic has left at most: for every feed not yet done its
\* attempts and the step that takes it up, then the selection and the calls
\* downstream with the attempts of the summarizer.
StepsLeft ==
  CASE pc = "loop" ->
         (Len(topic.rssFeeds) + 1 - feedIdx) * (MaxRetries + 1) + MaxRetries + 6
    [] pc = "attempt" ->
         (Len(topic.rssFeeds) + 1 - feedIdx) * (MaxRetries + 1) - (attempt + 1)
           + MaxRetries + 6
    [] pc = "returned" -> MaxRetries + 5
    [] pc = "summarize" -> MaxRetries + 3 - attempt
    [] pc = "summarized" -> 2
    [] pc = "markdown" -> 1
    [] OTHER -> 0

\* Every step of a topic leaves fewer steps, and the number never falls
\* below 0: no topic is processed forever.
EveryStepCountsDown == [][StepsLeft' < StepsLeft]_vars

StepsLeftNotNegative == StepsLeft >= 0

====
